---- MODULE Spec2Model ----
(***************************************************************************)
(* MercuryProvider (packages/ckit/src/providers/mercury/MercuryProvider.ts) *)
(*                                                                         *)
(* The four paginated queries (collectCkbLiveCells, getCkbLiveCellsBalance, *)
(* collectUdtCells, getUdtBalance) are rxjs pipelines over the indexer's    *)
(* get_cells; waitForTransactionCommitted is a two-phase polling loop.      *)
(* One call is modelled at a time; it suspends only where the code awaits.  *)
(***************************************************************************)
EXTENDS Integers, Sequences, FiniteSets, TLC

\* ------------------------------------------------------------------ bounds
MaxCells == 3        \* cells the indexer holds for the search key
MaxPages == 3        \* pages the indexer serves before it runs dry
MaxPageLen == 2      \* cells per page
MaxThreshold == 3    \* small thresholds 0..MaxThreshold
HighThreshold == 19  \* one threshold above the 0x12 cell

\* ------------------------------------------------------- numbers on the wire
\* A HexNumber "0x1f" is the sequence of its digits <<1, 15>>; an output_data
\* "0x0100.." is the sequence of its bytes <<1, 0, ..>>.
Front(s) == SubSeq(s, 1, Len(s) - 1)

Last(s) == s[Len(s)]

RECURSIVE Reverse(_)
Reverse(s) == IF s = <<>> THEN <<>> ELSE Append(Reverse(Tail(s)), Head(s))

\* BigInt("0x..."): most significant digit first.
RECURSIVE BigInt(_, _)
BigInt(digits, base) ==
  IF digits = <<>> THEN 0 ELSE BigInt(Front(digits), base) * base + Last(digits)

HexBigInt(hex) == BigInt(hex, 16)

\* Amount.from(n).toHex() and bytes.toHex(n): "0x" + n.toString(16).
RECURSIVE toHex(_)
toHex(n) == IF n < 16 THEN <<n>> ELSE Append(toHex(n \div 16), n % 16)

\* ------------------------------------------------------------ token payload
UdtBytes == 16       \* output_data.slice(0, 34): "0x" and 32 hex digits

\* output_data.slice(0, 34)
SliceData(data) == SubSeq(data, 1, IF Len(data) < UdtBytes THEN Len(data) ELSE UdtBytes)

RECURSIVE StripZeros(_)
StripZeros(bytes) ==
  IF bytes # <<>> /\ Head(bytes) = 0 THEN StripZeros(Tail(bytes)) ELSE bytes

RECURSIVE PadLeft(_, _)
PadLeft(bytes, n) == IF Len(bytes) >= n THEN bytes ELSE PadLeft(<<0>> \o bytes, n)

\* pw-core toBigUInt128LE(x): x is read as a number (the hex string, most
\* significant byte first) and written back as 16 bytes, least significant first.
toBigUInt128BE(bytes) == PadLeft(StripZeros(bytes), UdtBytes)
toBigUInt128LE(bytes) == Reverse(PadLeft(StripZeros(bytes), UdtBytes))

\* the bigint BigInt(toBigUInt128LE(...)) as its base-256 digits
UdtDigits(cell) == StripZeros(toBigUInt128LE(SliceData(cell.output_data)))

\* BigInt(toBigUInt128LE(resolvedCell.output_data.slice(0, 34)))
UdtAmount(cell) == BigInt(UdtDigits(cell), 256)

\* BigInt(next.output.capacity)
CkbAmount(cell) == HexBigInt(cell.capacity)

\* -------------------------------------------------------------------- calls
CollectKinds == {"collectCkbLiveCells", "collectUdtCells"}

BalanceKinds == {"getCkbLiveCellsBalance", "getUdtBalance"}

CkbKinds == {"collectCkbLiveCells", "getCkbLiveCellsBalance"}

Kinds == CollectKinds \cup BalanceKinds

NoType == "null"

\* cells locked by the address that carry no token
CkbCellKinds ==
  { [capacity |-> <<1>>, type |-> NoType, output_data |-> <<>>],
    [capacity |-> <<1, 2>>, type |-> NoType, output_data |-> <<>>],
    [capacity |-> <<2>>, type |-> "dao", output_data |-> <<>>],
    [capacity |-> <<3>>, type |-> NoType, output_data |-> <<5>>] }

\* a 16-byte little-endian amount, as the sudt script stores it
RECURSIVE EncodeLE(_, _)
EncodeLE(n, width) ==
  IF width = 0 THEN <<>> ELSE <<n % 256>> \o EncodeLE(n \div 256, width - 1)

\* cells locked by the address that carry the token
UdtCellKinds ==
  { [capacity |-> <<8, 14>>, type |-> "udt", output_data |-> EncodeLE(1, UdtBytes)],
    [capacity |-> <<8, 14>>, type |-> "udt", output_data |-> EncodeLE(18, UdtBytes) \o <<7>>],
    [capacity |-> <<8, 14>>, type |-> "udt", output_data |-> EncodeLE(256, UdtBytes)] }

\* searchKey.filter: { output_data_len_range: ['0x0', '0x1'] } for the ckb
\* queries, { script: udt } for the token queries; the indexer applies it
SearchKeyNoFilter(k, cell) == TRUE
SearchKey(k, cell) ==
  IF k \in CkbKinds THEN 0 <= Len(cell.output_data) /\ Len(cell.output_data) < 1
  ELSE cell.type = "udt"

\* the cells get_cells can return for the call's search key
CellKindsOf(k) == { c \in CkbCellKinds \cup UdtCellKinds : SearchKey(k, c) }

SeqsUpTo(S, n) == UNION { [1..m -> S] : m \in 0..n }

RECURSIVE SumSeq(_)
SumSeq(s) == IF s = <<>> THEN 0 ELSE Head(s) + SumSeq(Tail(s))

\* cut a flat list of cells into pages of the given lengths; every cell gets
\* the out_point of its place in the list
RECURSIVE Paginate(_, _, _)
Paginate(flat, lens, from) ==
  IF lens = <<>> THEN <<>>
  ELSE <<[i \in 1..Head(lens) |->
            [out_point |-> from + i,
             capacity |-> flat[from + i].capacity,
             type |-> flat[from + i].type,
             output_data |-> flat[from + i].output_data]]>>
       \o Paginate(flat, Tail(lens), from + Head(lens))

Sources(k) ==
  { Paginate(flat, lens, 0) :
      <<flat, lens>> \in
        { fl \in SeqsUpTo(CellKindsOf(k), MaxCells) \X SeqsUpTo(0..MaxPageLen, MaxPages) :
            SumSeq(fl[2]) = Len(fl[1]) } }

Thresholds == { toHex(n) : n \in (0..MaxThreshold) \cup {HighThreshold} }

VARIABLES
  kind,       \* the method called
  minimal,    \* minimalCapacity / minimalAmount, a HexNumber
  pages,      \* what the indexer serves for the call's search key
  pc,         \* "start", "await" (suspended on the stream), "settled"
  inflight,   \* after_cursor of every get_cells promise not yet settled
  requests,   \* after_cursor of every get_cells call made, in order
  responses,  \* last_cursor of every get_cells response received, in order
  failedAt,   \* index in requests of the get_cells call that rejected, or 0
  acc,        \* the scan / reduce state
  outcome,    \* "pending", "resolved", or the error the promise rejects with
  result,     \* the value the promise resolves with
  error       \* the fields of the insufficiency error

cvars == <<kind, minimal, pages, pc, inflight, requests, responses, failedAt,
           acc, outcome, result, error>>

\* waitForTransactionCommitted
VARIABLES
  wpc,            \* where the call is suspended, "idle" before it, or how it ended
  now,            \* Date.now()
  start,          \* const start
  timeoutMs,      \* options.timeoutMs
  pollIntervalMs, \* options.pollIntervalMs
  wresult,        \* let result
  rpcTip,         \* const rpcTip
  txStatus,       \* what the node reports for txHash (Null: no such transaction)
  chainTip,       \* the node's tip block number
  indexerTip,     \* the indexer's tip block number
  calls           \* every RPC call made: which, elapsed time when made, its reply

wvars == <<wpc, now, start, timeoutMs, pollIntervalMs, wresult, rpcTip,
           txStatus, chainTip, indexerTip, calls>>

\* one token payload through the scan step
VARIABLES
  dpc,       \* "ready", "done"; "off" when no payload is being decoded
  dkind,     \* collectUdtCells or getUdtBalance
  dcell,     \* the cell the indexer returned
  dacc,      \* the accumulator before the cell
  dout,      \* the accumulator after the cell
  ddigits    \* the decoded amount as a bigint: its base-256 digits, most significant first

dvars == <<dpc, dkind, dcell, dacc, dout, ddigits>>

\* two calls in flight on one provider
VARIABLES
  two,       \* per call: kind, minimal, pc, inflight, outcome, result, error
  accs       \* the scan / reduce state of each pipeline

tvars == <<two, accs>>

\* AcpTransferSudtBuilder
VARIABLES
  bpc,          \* "new", "inner" (awaiting this.builder.build()), "done"; "off"
  sender,       \* this.sender
  recipients,   \* this.options.recipients[i].recipient
  innerBuilds,  \* calls of this.builder.build()
  innerResult,  \* what this.builder.build() settled with
  boutcome      \* what build() settled with

bvars == <<bpc, sender, recipients, innerBuilds, innerResult, boutcome>>

vars == <<cvars, wvars, dvars, tvars, bvars>>

\* --------------------------------------------------------------- the indexer
NoCursor == 0

\* mercury.get_cells({ search_key, after_cursor }): the page after the cursor,
\* an empty page past the end; last_cursor names the page served.
get_cells(after_cursor) ==
  [objects |-> IF after_cursor + 1 <= Len(pages) THEN pages[after_cursor + 1] ELSE <<>>,
   last_cursor |-> after_cursor + 1]

\* -------------------------------------------------------------- the pipeline
\* expand((res) => get_cells({ search_key, after_cursor: res.last_cursor }), 1)
ExpandNoCursor(res) == NoCursor
Expand(res) == res.last_cursor

\* takeWhile((res) => res.objects.length > 0)
TakeWhilePage(res) == Len(res.objects) > 0

\* filter((cell) => cell.output.type == null); the udt pipelines have no filter
FilterNone(k, cell) == TRUE
Filter(k, cell) == IF k \in CkbKinds THEN cell.type = NoType ELSE TRUE

\* next.output.capacity for the ckb pipelines, the decoded payload for the token ones
ContributionCapacity(k, cell) == CkbAmount(cell)
Contribution(k, cell) == IF k \in CkbKinds THEN CkbAmount(cell) ELSE UdtAmount(cell)

\* acc.cells.concat(next); reduce keeps no cells
ConcatFront(k, cells, next) == IF k \in CollectKinds THEN <<next>> \o cells ELSE cells
Concat(k, cells, next) == IF k \in CollectKinds THEN Append(cells, next) ELSE cells

\* the accumulator function of scan / reduce
ScanStep(k, a, next) ==
  [cells |-> Concat(k, a.cells, next), amount |-> a.amount + Contribution(k, next)]

Seed == [cells |-> <<>>, amount |-> 0]

\* takeWhile((acc) => acc.amount < BigInt(minimal), true); reduce has none
TakeWhileAmountLeq(k, a, min) == k \in BalanceKinds \/ a.amount <= HexBigInt(min)
TakeWhileAmountAll(k, a, min) == a.amount < HexBigInt(min)
TakeWhileAmount(k, a, min) == k \in BalanceKinds \/ a.amount < HexBigInt(min)

\* concatMap + filter + scan + takeWhile over the objects of one page: the
\* accumulator after the page, and whether the last takeWhile completed the stream
RECURSIVE FoldPage(_, _, _, _)
FoldPage(k, a, objects, min) ==
  IF objects = <<>> THEN [acc |-> a, complete |-> FALSE]
  ELSE IF ~Filter(k, Head(objects)) THEN FoldPage(k, a, Tail(objects), min)
  ELSE LET a2 == ScanStep(k, a, Head(objects))
       IN IF TakeWhileAmount(k, a2, min) THEN FoldPage(k, a2, Tail(objects), min)
          ELSE [acc |-> a2, complete |-> TRUE]

\* one page through the whole pipe
OnPage(k, a, res, min) ==
  IF ~TakeWhilePage(res) THEN [acc |-> a, complete |-> TRUE]
  ELSE FoldPage(k, a, res.objects, min)

\* if (acc.amount < BigInt(minimal)) throw ...
InsufficientLeq(a, min) == a.amount <= HexBigInt(min)
Insufficient(a, min) == a.amount < HexBigInt(min)

ErrorOf(k) == IF k = "collectCkbLiveCells" THEN "NoEnoughCkbError" ELSE "NoEnoughUdtError"

NoError == [expected |-> <<>>, actual |-> <<>>]

\* what follows `await lastValueFrom(...)`
SettleWrongActual(k, a, min) ==
  IF k \in CollectKinds /\ Insufficient(a, min)
  THEN [outcome |-> ErrorOf(k), result |-> <<>>,
        error |-> [expected |-> min, actual |-> min]]
  ELSE [outcome |-> "resolved", error |-> NoError,
        result |-> IF k \in CollectKinds THEN a.cells ELSE toHex(a.amount)]
Settle(k, a, min) ==
  IF k \in CollectKinds /\ Insufficient(a, min)
  THEN [outcome |-> ErrorOf(k), result |-> <<>>,
        error |-> [expected |-> min, actual |-> toHex(a.amount)]]
  ELSE [outcome |-> "resolved", error |-> NoError,
        result |-> IF k \in CollectKinds THEN a.cells ELSE toHex(a.amount)]

\* a rejected get_cells: the pipe has no retry and no catchError
OnErrorRetry(after_cursor) == <<after_cursor>>
OnError(after_cursor) == <<>>

\* from(this.mercury.get_cells({ search_key })): the first request, and the
\* call suspends on lastValueFrom
Call ==
  /\ pc = "start"
  /\ pc' = "await"
  /\ inflight' = <<NoCursor>>
  /\ requests' = <<NoCursor>>
  /\ UNCHANGED <<kind, minimal, pages, responses, failedAt, acc, outcome, result, error>>
  /\ UNCHANGED <<wvars, dvars, tvars, bvars>>

\* a get_cells promise resolves while the stream is subscribed: expand emits the
\* page downstream, then calls its project function (the next get_cells) whether
\* or not the page completed the stream; a completed stream settles the call
Deliver ==
  /\ pc = "await"
  /\ inflight # <<>>
  /\ LET res == get_cells(Head(inflight))
         step == OnPage(kind, acc, res, minimal)
         end == Settle(kind, step.acc, minimal)
     IN /\ responses' = Append(responses, res.last_cursor)
        /\ inflight' = Append(Tail(inflight), Expand(res))
        /\ requests' = Append(requests, Expand(res))
        /\ acc' = step.acc
        /\ IF step.complete
           THEN /\ pc' = "settled"
                /\ outcome' = end.outcome
                /\ result' = end.result
                /\ error' = end.error
           ELSE UNCHANGED <<pc, outcome, result, error>>
  /\ UNCHANGED <<kind, minimal, pages, failedAt>>
  /\ UNCHANGED <<wvars, dvars, tvars, bvars>>

\* a get_cells promise rejects while the stream is subscribed: the error goes
\* through the pipe to lastValueFrom and out of the method
Fail ==
  /\ pc = "await"
  /\ inflight # <<>>
  /\ failedAt' = Len(requests)
  /\ inflight' = Tail(inflight) \o OnError(Head(inflight))
  /\ requests' = requests \o OnError(Head(inflight))
  /\ IF OnError(Head(inflight)) = <<>>
     THEN /\ pc' = "settled"
          /\ outcome' = "TransportError"
     ELSE UNCHANGED <<pc, outcome>>
  /\ UNCHANGED <<kind, minimal, pages, responses, acc, result, error>>
  /\ UNCHANGED <<wvars, dvars, tvars, bvars>>

\* the request expand made after the stream had completed settles: its
\* subscriber is closed, the response (or rejection) is dropped
Late ==
  /\ pc = "settled"
  /\ inflight # <<>>
  /\ inflight' = Tail(inflight)
  /\ \/ responses' = Append(responses, get_cells(Head(inflight)).last_cursor)
     \/ UNCHANGED responses
  /\ UNCHANGED <<kind, minimal, pages, pc, requests, failedAt, acc, outcome, result, error>>
  /\ UNCHANGED <<wvars, dvars, tvars, bvars>>

\* ------------------------------------------- waitForTransactionCommitted
MaxTimeout == 3      \* timeoutMs in 0..MaxTimeout
MaxInterval == 2     \* pollIntervalMs in 1..MaxInterval
MaxRpcMs == 1        \* an RPC call takes 0..MaxRpcMs
MaxBlock == 2        \* the chain grows to MaxBlock

Body == "transaction"

Null == "null"

TxStatuses == {Null, "pending", "proposed", "committed"}


Init ==
  /\ kind \in Kinds
  /\ minimal \in (IF kind \in CollectKinds THEN Thresholds ELSE {<<0>>})
  /\ pages \in Sources(kind)
  /\ pc = "start"
  /\ inflight = <<>>
  /\ requests = <<>>
  /\ responses = <<>>
  /\ failedAt = 0
  /\ acc = Seed
  /\ outcome = "pending"
  /\ result = <<>>
  /\ error = NoError
  /\ wpc = "idle"
  /\ now = 0
  /\ start = 0
  /\ timeoutMs = 0
  /\ pollIntervalMs = 1
  /\ wresult = Null
  /\ rpcTip = 0
  /\ txStatus = Null
  /\ chainTip = 0
  /\ indexerTip = 0
  /\ calls = <<>>
  /\ dpc = "off"
  /\ dkind = "collectUdtCells"
  /\ dcell = <<>>
  /\ dacc = Seed
  /\ dout = Seed
  /\ ddigits = <<>>
  /\ two = <<>>
  /\ accs = <<>>
  /\ bpc = "off"
  /\ sender = ""
  /\ recipients = <<>>
  /\ innerBuilds = 0
  /\ innerResult = "none"
  /\ boutcome = "pending"

InitWait ==
  /\ kind = "collectCkbLiveCells"
  /\ minimal = <<0>>
  /\ pages = <<>>
  /\ pc = "start"
  /\ inflight = <<>>
  /\ requests = <<>>
  /\ responses = <<>>
  /\ failedAt = 0
  /\ acc = Seed
  /\ outcome = "pending"
  /\ result = <<>>
  /\ error = NoError
  /\ wpc = "idle"
  /\ now \in 0..1
  /\ start = 0
  /\ timeoutMs \in 0..MaxTimeout
  /\ pollIntervalMs \in 1..MaxInterval
  /\ wresult = Null
  /\ rpcTip = 0
  /\ txStatus \in {Null, "pending"}
  /\ chainTip \in 0..1
  /\ indexerTip \in 0..chainTip
  /\ calls = <<>>
  /\ dpc = "off"
  /\ dkind = "collectUdtCells"
  /\ dcell = <<>>
  /\ dacc = Seed
  /\ dout = Seed
  /\ ddigits = <<>>
  /\ two = <<>>
  /\ accs = <<>>
  /\ bpc = "off"
  /\ sender = ""
  /\ recipients = <<>>
  /\ innerBuilds = 0
  /\ innerResult = "none"
  /\ boutcome = "pending"

\* while (Date.now() - start <= timeoutMs)
InBudgetSinceLastCall(t) == t - (start + calls[Len(calls)].elapsed) <= timeoutMs
InBudget(t) == t - start <= timeoutMs

\* tx?.tx_status?.status === 'committed'
IsCommittedOrProposed(status) == status \in {"committed", "proposed"}
IsCommitted(status) == status = "committed"

\* Number(mercuryTip.block_number) >= rpcTip
CaughtUpStrict(block_number, tip) == block_number > tip
CaughtUpAlways(block_number, tip) == TRUE
CaughtUp(block_number, tip) == block_number >= tip

Made(rpc, t) ==
  [rpc |-> rpc, elapsed |-> t - start, reply |-> "outstanding", block_number |-> -1]

Replied(reply) == [calls EXCEPT ![Len(calls)].reply = reply]

RepliedNumber(n) ==
  [calls EXCEPT ![Len(calls)].reply = "number", ![Len(calls)].block_number = n]

\* the head of the first loop at time t: poll get_transaction, or leave the loop
\* and read the node's tip
Loop1(t) ==
  IF InBudget(t)
  THEN /\ wpc' = "get_transaction"
       /\ calls' = Append(calls, Made("get_transaction", t))
  ELSE /\ wpc' = "get_tip_block_number"
       /\ calls' = Append(calls, Made("get_tip_block_number", t))

\* the head of the second loop at time t: poll the indexer's tip, or return
Loop2(t, log) ==
  IF InBudget(t)
  THEN /\ wpc' = "get_tip"
       /\ calls' = Append(log, Made("get_tip", t))
  ELSE /\ wpc' = "returned"
       /\ calls' = log

\* the call: start = Date.now(), result = null, first loop test
Wait ==
  /\ wpc = "idle"
  /\ start' = now
  /\ wresult' = Null
  /\ IF now - now <= timeoutMs
     THEN /\ wpc' = "get_transaction"
          /\ calls' = <<[rpc |-> "get_transaction", elapsed |-> 0,
                          reply |-> "outstanding", block_number |-> -1]>>
     ELSE /\ wpc' = "get_tip_block_number"
          /\ calls' = <<[rpc |-> "get_tip_block_number", elapsed |-> 0,
                          reply |-> "outstanding", block_number |-> -1]>>
  /\ UNCHANGED <<now, timeoutMs, pollIntervalMs, rpcTip, txStatus, chainTip, indexerTip>>
  /\ UNCHANGED <<cvars, dvars, tvars, bvars>>

\* await this.rpc.get_transaction(txHash) resolves
GetTransaction ==
  /\ wpc = "get_transaction"
  /\ \E d \in 0..MaxRpcMs : now' = now + d
  /\ IF IsCommitted(txStatus)
     THEN /\ wresult' = Body
          /\ wpc' = "get_tip_block_number"
          /\ calls' = Append(Replied(txStatus), Made("get_tip_block_number", now'))
     ELSE /\ wpc' = "sleep1"
          /\ calls' = Replied(txStatus)
          /\ UNCHANGED wresult
  /\ UNCHANGED <<start, timeoutMs, pollIntervalMs, rpcTip, txStatus, chainTip, indexerTip>>
  /\ UNCHANGED <<cvars, dvars, tvars, bvars>>

\* await asyncSleep(pollIntervalMs) of the first loop resolves
Sleep1 ==
  /\ wpc = "sleep1"
  /\ \E late \in 0..1 : now' = now + pollIntervalMs + late
  /\ Loop1(now')
  /\ UNCHANGED <<start, timeoutMs, pollIntervalMs, wresult, rpcTip, txStatus, chainTip, indexerTip>>
  /\ UNCHANGED <<cvars, dvars, tvars, bvars>>

\* await this.rpc.get_tip_block_number() resolves
GetTipBlockNumber ==
  /\ wpc = "get_tip_block_number"
  /\ \E d \in 0..MaxRpcMs : now' = now + d
  /\ rpcTip' = chainTip
  /\ Loop2(now', RepliedNumber(chainTip))
  /\ UNCHANGED <<start, timeoutMs, pollIntervalMs, wresult, txStatus, chainTip, indexerTip>>
  /\ UNCHANGED <<cvars, dvars, tvars, bvars>>

\* await this.mercury.get_tip() resolves
GetTip ==
  /\ wpc = "get_tip"
  /\ \E d \in 0..MaxRpcMs : now' = now + d
  /\ calls' = RepliedNumber(indexerTip)
  /\ wpc' = IF CaughtUp(indexerTip, rpcTip) THEN "returned" ELSE "sleep2"
  /\ UNCHANGED <<start, timeoutMs, pollIntervalMs, wresult, rpcTip, txStatus, chainTip, indexerTip>>
  /\ UNCHANGED <<cvars, dvars, tvars, bvars>>

\* await asyncSleep(pollIntervalMs) of the second loop resolves
Sleep2 ==
  /\ wpc = "sleep2"
  /\ \E late \in 0..1 : now' = now + pollIntervalMs + late
  /\ Loop2(now', calls)
  /\ UNCHANGED <<start, timeoutMs, pollIntervalMs, wresult, rpcTip, txStatus, chainTip, indexerTip>>
  /\ UNCHANGED <<cvars, dvars, tvars, bvars>>

\* an awaited RPC call rejects: nothing catches it
RpcFails ==
  /\ wpc \in {"get_transaction", "get_tip_block_number", "get_tip"}
  /\ \E d \in 0..MaxRpcMs : now' = now + d
  /\ wpc' = "rejected"
  /\ calls' = Replied("error")
  /\ UNCHANGED <<start, timeoutMs, pollIntervalMs, wresult, rpcTip, txStatus, chainTip, indexerTip>>
  /\ UNCHANGED <<cvars, dvars, tvars, bvars>>

Waiting == wpc \notin {"off", "idle", "returned", "rejected"}

\* the node: the transaction moves through the pool and into a block, or a
\* reorganisation takes it out again
TxMoves ==
  /\ Waiting
  /\ txStatus' \in TxStatuses \ {txStatus}
  /\ UNCHANGED <<wpc, now, start, timeoutMs, pollIntervalMs, wresult, rpcTip, chainTip, indexerTip, calls>>
  /\ UNCHANGED <<cvars, dvars, tvars, bvars>>

\* the node: a new block
ChainGrows ==
  /\ Waiting
  /\ chainTip < MaxBlock
  /\ chainTip' = chainTip + 1
  /\ UNCHANGED <<wpc, now, start, timeoutMs, pollIntervalMs, wresult, rpcTip, txStatus, indexerTip, calls>>
  /\ UNCHANGED <<cvars, dvars, tvars, bvars>>

\* the indexer: one more block indexed
IndexerGrows ==
  /\ Waiting
  /\ indexerTip < chainTip
  /\ indexerTip' = indexerTip + 1
  /\ UNCHANGED <<wpc, now, start, timeoutMs, pollIntervalMs, wresult, rpcTip, txStatus, chainTip, calls>>
  /\ UNCHANGED <<cvars, dvars, tvars, bvars>>

Next == Call \/ Deliver \/ Fail \/ Late

Spec == Init /\ [][Next]_vars

NextWait ==
  \/ Wait
  \/ GetTransaction
  \/ Sleep1
  \/ GetTipBlockNumber
  \/ GetTip
  \/ Sleep2
  \/ RpcFails
  \/ TxMoves
  \/ ChainGrows
  \/ IndexerGrows

SpecWait == InitWait /\ [][NextWait]_vars

\* ------------------------------------------------- one payload, one scan step
UdtKinds == Kinds \ CkbKinds

\* bytes a payload is built from: 0x3039 = 12345 is <<57, 48>>
PayloadBytes == {0, 1, 48, 57, 255}

\* what may follow the 16 bytes of the amount
Trailers == {<<>>, <<7>>, <<255, 1>>}

RECURSIVE Zeros(_)
Zeros(n) == IF n <= 0 THEN <<>> ELSE <<0>> \o Zeros(n - 1)

\* 16-byte amounts: three low bytes, zeros, and the highest byte
Payloads ==
  { low \o Zeros(UdtBytes - 4) \o <<high>> \o trailer :
      low \in [1..3 -> PayloadBytes], high \in {0, 1, 255}, trailer \in Trailers }

\* a token cell folded in before this one
PriorCell ==
  [out_point |-> 1, capacity |-> <<8, 14>>, type |-> "udt",
   output_data |-> EncodeLE(7, UdtBytes)]

InitDecode ==
  /\ dpc = "ready"
  /\ dkind \in UdtKinds
  /\ dcell \in { [out_point |-> 2, capacity |-> <<8, 14>>, type |-> "udt", output_data |-> d] :
                   d \in Payloads }
  /\ dacc \in { Seed,
                [cells |-> IF dkind \in CollectKinds THEN <<PriorCell>> ELSE <<>>,
                 amount |-> 7] }
  /\ dout = Seed
  /\ ddigits = <<>>
  /\ kind = "collectCkbLiveCells"
  /\ minimal = <<0>>
  /\ pages = <<>>
  /\ pc = "start"
  /\ inflight = <<>>
  /\ requests = <<>>
  /\ responses = <<>>
  /\ failedAt = 0
  /\ acc = Seed
  /\ outcome = "pending"
  /\ result = <<>>
  /\ error = NoError
  /\ wpc = "idle"
  /\ now = 0
  /\ start = 0
  /\ timeoutMs = 0
  /\ pollIntervalMs = 1
  /\ wresult = Null
  /\ rpcTip = 0
  /\ txStatus = Null
  /\ chainTip = 0
  /\ indexerTip = 0
  /\ calls = <<>>
  /\ two = <<>>
  /\ accs = <<>>
  /\ bpc = "off"
  /\ sender = ""
  /\ recipients = <<>>
  /\ innerBuilds = 0
  /\ innerResult = "none"
  /\ boutcome = "pending"

\* the amount is below 2^24: the running sum is kept as a number
IsSmall(cell) ==
  \A i \in 4..Len(SliceData(cell.output_data)) : SliceData(cell.output_data)[i] = 0

\* the accumulator function of scan / reduce on one token cell
FoldUdt ==
  /\ dpc = "ready"
  /\ IsSmall(dcell)
  /\ dpc' = "done"
  /\ dout' = ScanStep(dkind, dacc, dcell)
  /\ ddigits' = UdtDigits(dcell)
  /\ UNCHANGED <<dkind, dcell, dacc>>
  /\ UNCHANGED <<cvars, wvars, tvars, bvars>>

\* the same on an amount of 2^24 or more, which is kept as digits only
FoldUdtWide ==
  /\ dpc = "ready"
  /\ ~IsSmall(dcell)
  /\ dpc' = "done"
  /\ ddigits' = UdtDigits(dcell)
  /\ UNCHANGED <<dkind, dcell, dacc, dout>>
  /\ UNCHANGED <<cvars, wvars, tvars, bvars>>

NextDecode == FoldUdt \/ FoldUdtWide

SpecDecode == InitDecode /\ [][NextDecode]_vars

\* ------------------------------------------------------- what the source holds
\* the cells of the pages before the first empty page, in the order served
RECURSIVE UpToEmpty(_)
UpToEmpty(ps) ==
  IF ps = <<>> \/ Head(ps) = <<>> THEN <<>> ELSE Head(ps) \o UpToEmpty(Tail(ps))

\* a 16-byte unsigned integer, least significant byte first
RECURSIVE LittleEndian(_)
LittleEndian(bytes) ==
  IF bytes = <<>> THEN 0 ELSE Head(bytes) + 256 * LittleEndian(Tail(bytes))

IsMatching(cell) == kind \notin CkbKinds \/ cell.type = NoType

ValueOf(cell) ==
  IF kind \in CkbKinds THEN HexBigInt(cell.capacity)
  ELSE LittleEndian(SubSeq(cell.output_data, 1, UdtBytes))

Matching == SelectSeq(UpToEmpty(pages), IsMatching)

RECURSIVE Total(_)
Total(cells) == IF cells = <<>> THEN 0 ELSE ValueOf(Head(cells)) + Total(Tail(cells))

T == HexBigInt(minimal)

Insufficiency == {"NoEnoughCkbError", "NoEnoughUdtError"}

Succeeded == pc = "settled" /\ kind \in CollectKinds /\ outcome = "resolved"

\* the get_cells calls whose response the stream has taken
Taken == IF pc = "settled" /\ failedAt = 0 THEN Len(requests) - 1 ELSE Len(responses)

\* C1: a successful collect returns cells worth at least the threshold, and
\* the returned cells without the last one are worth less than the threshold
\* (stated for the sequences that have a cell before the last one).
C1_Tightness ==
  Succeeded =>
    /\ Total(result) >= T
    /\ Len(result) >= 2 => Total(Front(result)) < T

C1_Witness ==
  /\ Succeeded
  /\ Len(result) = 3
  /\ Len(responses) = 2
  /\ Total(result) > T

\* C2: when everything the source serves before its first empty page is worth
\* less than the threshold, the collect fails with the insufficiency error of
\* its kind, actual is that total and expected is the threshold.
C2_Exhaustion ==
  (pc = "settled" /\ kind \in CollectKinds /\ failedAt = 0 /\ Total(Matching) < T) =>
    /\ outcome = ErrorOf(kind)
    /\ outcome = (IF kind = "collectUdtCells" THEN "NoEnoughUdtError" ELSE "NoEnoughCkbError")
    /\ HexBigInt(error.actual) = Total(Matching)
    /\ error.expected = minimal

C2_Witness ==
  /\ outcome = "NoEnoughUdtError"
  /\ error.actual = <<1, 2>>
  /\ error.expected = <<1, 3>>
  /\ Len(responses) >= 2

\* C3: a collect with threshold 0 returns no cell, and no returned cell was
\* added when the cells before it already met the threshold.
C3_ZeroThreshold ==
  Succeeded =>
    /\ T = 0 => result = <<>>
    /\ \A i \in 1..Len(result) : Total(SubSeq(result, 1, i - 1)) < T

\* C4: a successful collect returns a prefix of the matching cells in the
\* order the source served them.
C4_OrderPreserved ==
  Succeeded =>
    /\ Len(result) <= Len(Matching)
    /\ result = SubSeq(Matching, 1, Len(result))

C4_Witness ==
  /\ Succeeded
  /\ Len(result) = 2
  /\ result[1].out_point = 1
  /\ result[2].out_point = 3
  /\ Len(responses) = 2

\* C5: the insufficiency error is raised only when an empty page was taken with
\* the running sum below the threshold; when the matching cells before the
\* first empty page reach the threshold the call succeeds.
C5_NotSpeculative ==
  /\ outcome \in Insufficiency =>
       /\ Taken >= 1
       /\ get_cells(requests[Taken]).objects = <<>>
       /\ acc.amount < T
  /\ (pc = "settled" /\ kind \in CollectKinds /\ failedAt = 0 /\ Total(Matching) >= T) =>
       outcome = "resolved"

C5_Witness ==
  /\ Succeeded
  /\ acc.amount = T
  /\ T > 0
  /\ Len(result) = Len(Matching)
  /\ Len(result) = 2

\* C6: the first get_cells call carries no cursor, every later call carries
\* the last_cursor of the response before it, and at most one call is
\* outstanding.
C6_Sequential ==
  /\ requests # <<>> => requests[1] = NoCursor
  /\ \A i \in 2..Len(requests) :
       /\ i - 1 <= Len(responses)
       /\ requests[i] = responses[i - 1]
       /\ requests[i] # NoCursor
  /\ Len(inflight) <= 1

C6_Witness ==
  /\ Len(requests) = 4
  /\ Len(inflight) = 1
  /\ pc = "await"

C8_FullScanBalance ==
  /\ kind \in BalanceKinds => outcome \notin Insufficiency
  /\ (kind \in BalanceKinds /\ pc = "settled" /\ failedAt = 0) =>
       /\ outcome = "resolved"
       /\ HexBigInt(result) = Total(Matching)

C8_Witness ==
  /\ kind = "getCkbLiveCellsBalance"
  /\ outcome = "resolved"
  /\ result = <<1, 4>>
  /\ Len(Matching) = 3
  /\ Len(responses) >= 3

\* C9: a get_cells call that fails before the collect has settled fails the
\* call with that error; no cells are returned, the call is not made again
\* and no further page is requested.
C9_TransportFailure ==
  (kind \in CollectKinds /\ failedAt > 0) =>
    /\ outcome = "TransportError"
    /\ result = <<>>
    /\ Len(requests) = failedAt
    /\ inflight = <<>>

C9_Witness ==
  /\ kind \in CollectKinds
  /\ failedAt = 3
  /\ Len(acc.cells) = 2
  /\ outcome = "TransportError"

\* ---------------------------------------------------------------- the poller
CommittedPoll(i) ==
  /\ calls[i].rpc = "get_transaction"
  /\ calls[i].reply = "committed"
  /\ calls[i].elapsed <= timeoutMs

\* C10: the call returns the transaction when a get_transaction poll made
\* within the budget reported it committed, and null when none did; it is
\* rejected only when an RPC call was, never for running out of time.
C10_PollerResult ==
  /\ wpc = "returned" =>
       /\ wresult \in {Body, Null}
       /\ wresult = Body <=> \E i \in 1..Len(calls) : CommittedPoll(i)
  /\ wpc = "rejected" => \E i \in 1..Len(calls) : calls[i].reply = "error"

C10_Witness ==
  /\ wpc = "returned"
  /\ wresult = Body
  /\ now - start > timeoutMs
  /\ indexerTip < rpcTip
  /\ Len(calls) >= 5

\* C11: both loops measure the elapsed time from the one start instant of the
\* call, which never changes during the call: no get_transaction poll and no
\* get_tip poll is started once that elapsed time exceeds timeoutMs.
C11_SharedDeadline ==
  /\ \A i \in 1..Len(calls) :
       calls[i].rpc \in {"get_transaction", "get_tip"} =>
         /\ calls[i].elapsed <= timeoutMs
         /\ calls[i].elapsed >= 0
  /\ \A i \in 2..Len(calls) : calls[i].elapsed >= calls[i - 1].elapsed
  /\ wpc # "idle" => start + calls[Len(calls)].elapsed <= now

C11_Witness ==
  /\ wpc = "returned"
  /\ now - start > timeoutMs
  /\ Len(calls) >= 5
  /\ calls[2].rpc = "get_transaction"
  /\ calls[2].elapsed > 0
  /\ calls[Len(calls)].rpc = "get_tip"
  /\ calls[Len(calls)].elapsed = timeoutMs
  /\ calls[Len(calls) - 1].rpc = "get_tip"

\* C12: a payload whose first 16 bytes hold n, least significant byte first,
\* adds exactly n to the running sum of collectUdtCells / getUdtBalance, and
\* the bytes after the first 16 change nothing (amounts of 2^24 and more are
\* compared digit by digit).
C12_RoundTrip ==
  dpc = "done" =>
    /\ ddigits = StripZeros(Reverse(SubSeq(dcell.output_data, 1, UdtBytes)))
    /\ IsSmall(dcell) =>
         /\ dout.amount = dacc.amount + LittleEndian(SubSeq(dcell.output_data, 1, UdtBytes))
         /\ BigInt(ddigits, 256) = LittleEndian(SubSeq(dcell.output_data, 1, UdtBytes))

C12_Witness ==
  /\ dpc = "done"
  /\ dacc.amount = 7
  /\ dout.amount = 7 + 12345
  /\ Len(dcell.output_data) = UdtBytes + 2
  /\ dkind = "getUdtBalance"

\* the page a cell was served in
PageOf(cell) == CHOOSE i \in 1..Len(pages) : \E j \in 1..Len(pages[i]) : pages[i][j] = cell

\* C13: once the cell that brings the running sum to the threshold is folded
\* in, no further get_cells call is made: the page after the one holding that
\* cell is never requested.
C13_StopsPulling ==
  (kind \in CollectKinds /\ T > 0 /\ acc.cells # <<>> /\ acc.amount >= T) =>
    \A i \in 1..Len(requests) : requests[i] + 1 <= PageOf(Last(acc.cells))

\* C14: the accumulator starts as (no cells, 0); in every state of a collect
\* its amount is the sum of the contributions of exactly the cells in its list,
\* and the list holds the matching cells folded in so far, each once, in order.
C14_AccumulatorInvariant ==
  /\ pc = "start" => acc = Seed
  /\ kind \in CollectKinds =>
       /\ acc.amount = Total(acc.cells)
       /\ Len(acc.cells) <= Len(Matching)
       /\ acc.cells = SubSeq(Matching, 1, Len(acc.cells))

C14_Witness ==
  /\ kind = "collectUdtCells"
  /\ pc = "await"
  /\ Len(acc.cells) = 2
  /\ acc.amount = 1 + 1
  /\ Len(responses) = 2

\* C15: in the ckb calls a non-empty page whose cells the type filter rejects
\* does not end the pagination; the first empty page does: nothing is
\* requested with its cursor and no cell served after it is folded in.
C15_OnlyEmptyPageEnds ==
  kind \in CkbKinds =>
    /\ (pc = "settled" /\ failedAt = 0) =>
         \/ get_cells(requests[Taken]).objects = <<>>
         \/ kind \in CollectKinds /\ acc.amount >= T
    /\ \A i \in 2..Len(requests) : get_cells(requests[i - 1]).objects # <<>>
    /\ \A i \in 1..Len(acc.cells) : acc.cells[i].out_point <= Len(UpToEmpty(pages))

PhaseOf(rpc) ==
  IF rpc = "get_transaction" THEN 1 ELSE IF rpc = "get_tip_block_number" THEN 2 ELSE 3

TipReads == { i \in 1..Len(calls) : calls[i].rpc = "get_tip_block_number" }

\* C16: every get_transaction poll comes before the one get_tip_block_number
\* read, which comes before every get_tip poll; a call that returns has read
\* the node's tip exactly once, also when no commit was seen; and a get_tip
\* reply at or above that tip is the last call made.
C16_PhaseOrder ==
  /\ \A i \in 1..Len(calls) : \A j \in i..Len(calls) :
       PhaseOf(calls[i].rpc) <= PhaseOf(calls[j].rpc)
  /\ Cardinality(TipReads) <= 1
  /\ wpc = "returned" =>
       /\ Cardinality(TipReads) = 1
       /\ \A i \in TipReads : calls[i].reply = "number" /\ calls[i].block_number = rpcTip
  /\ \A i \in 1..Len(calls) :
       (calls[i].rpc = "get_tip" /\ calls[i].reply = "number"
          /\ calls[i].block_number >= rpcTip) =>
         /\ i = Len(calls)
         /\ wpc = "returned"

C16_Witness ==
  /\ wpc = "returned"
  /\ wresult = Body
  /\ Len(calls) >= 5
  /\ calls[1].rpc = "get_transaction"
  /\ calls[2].rpc = "get_transaction"
  /\ calls[Len(calls) - 1].rpc = "get_tip"
  /\ calls[Len(calls) - 1].block_number < rpcTip
  /\ calls[Len(calls)].rpc = "get_tip"
  /\ calls[Len(calls)].block_number >= rpcTip

\* C19 as claimed: a call that returns the transaction has seen the indexer
\* at or above the node's tip read after the commit.
C19_IndexerCaughtUp ==
  (wpc = "returned" /\ wresult = Body) =>
    \E i \in 1..Len(calls) :
      /\ calls[i].rpc = "get_tip"
      /\ calls[i].reply = "number"
      /\ calls[i].block_number >= rpcTip

\* C19 as amended: a call that returns the transaction has seen the indexer
\* at or above the node's tip read after the commit, or has run out of its
\* time budget.
C19_IndexerCaughtUpOrTimeout ==
  (wpc = "returned" /\ wresult = Body) =>
    \/ \E i \in 1..Len(calls) :
         /\ calls[i].rpc = "get_tip"
         /\ calls[i].reply = "number"
         /\ calls[i].block_number >= rpcTip
         /\ \E j \in 1..(i - 1) :
              /\ calls[j].rpc = "get_tip_block_number"
              /\ calls[j].block_number = rpcTip
              /\ calls[j - 1].reply = "committed"
    \/ now - start > timeoutMs

C19_Witness ==
  /\ wpc = "returned"
  /\ wresult = Body
  /\ now - start <= timeoutMs
  /\ rpcTip >= 1
  /\ calls[Len(calls)].block_number = rpcTip
  /\ calls[Len(calls) - 1].rpc = "get_tip"

\* ------------------------------------------------- AcpTransferSudtBuilder
MaxRecipients == 3

Addresses == {"ckt1qa", "ckt1qb", "ckt1qc"}

Undefined == [recipient |-> "undefined"]

RecipientOptions == [recipient : Addresses]

InnerResults == {"tx1", "tx2", "InnerError"}

\* Array.prototype.find: the first element the predicate accepts
findFirstOnly(options, address) ==
  IF Len(options) > 0 /\ options[1].recipient = address THEN options[1] ELSE Undefined
find(options, address) ==
  IF \E i \in 1..Len(options) : options[i].recipient = address
  THEN options[CHOOSE i \in 1..Len(options) :
                 /\ options[i].recipient = address
                 /\ \A j \in 1..(i - 1) : options[j].recipient # address]
  ELSE Undefined

\* new AcpTransferSudtBuilder(options, provider, sender)
InitBuild ==
  /\ bpc = "new"
  /\ sender \in Addresses
  /\ recipients \in UNION { [1..n -> RecipientOptions] : n \in 0..MaxRecipients }
  /\ innerBuilds = 0
  /\ innerResult = "none"
  /\ boutcome = "pending"
  /\ kind = "collectCkbLiveCells"
  /\ minimal = <<0>>
  /\ pages = <<>>
  /\ pc = "start"
  /\ inflight = <<>>
  /\ requests = <<>>
  /\ responses = <<>>
  /\ failedAt = 0
  /\ acc = Seed
  /\ outcome = "pending"
  /\ result = <<>>
  /\ error = NoError
  /\ wpc = "idle"
  /\ now = 0
  /\ start = 0
  /\ timeoutMs = 0
  /\ pollIntervalMs = 1
  /\ wresult = Null
  /\ rpcTip = 0
  /\ txStatus = Null
  /\ chainTip = 0
  /\ indexerTip = 0
  /\ calls = <<>>
  /\ dpc = "off"
  /\ dkind = "collectUdtCells"
  /\ dcell = <<>>
  /\ dacc = Seed
  /\ dout = Seed
  /\ ddigits = <<>>
  /\ two = <<>>
  /\ accs = <<>>

\* build(), up to its throw or to the call of this.builder.build()
Build ==
  /\ bpc = "new"
  /\ LET transferToSelf == find(recipients, sender) IN
       IF transferToSelf # Undefined
       THEN /\ bpc' = "done"
            /\ boutcome' = "RecipientSameWithSenderError"
            /\ UNCHANGED innerBuilds
       ELSE /\ bpc' = "inner"
            /\ innerBuilds' = innerBuilds + 1
            /\ UNCHANGED boutcome
  /\ UNCHANGED <<sender, recipients, innerResult>>
  /\ UNCHANGED <<cvars, wvars, dvars, tvars>>

\* this.builder.build() settles and build() settles with it
InnerSettles ==
  /\ bpc = "inner"
  /\ \E r \in InnerResults :
       /\ innerResult' = r
       /\ boutcome' = r
  /\ bpc' = "done"
  /\ UNCHANGED <<sender, recipients, innerBuilds>>
  /\ UNCHANGED <<cvars, wvars, dvars, tvars>>

NextBuild == Build \/ InnerSettles

SpecBuild == InitBuild /\ [][NextBuild]_vars

SelfTransfer == \E i \in 1..Len(recipients) : recipients[i].recipient = sender

\* C20: build() fails with RecipientSameWithSenderError exactly when some
\* recipient is the sender, the inner builder's build is then never called,
\* and in every other case build() settles with what the inner build settled
\* with, after calling it once.
C20_SelfTransferGuard ==
  /\ SelfTransfer => innerBuilds = 0 /\ innerResult = "none"
  /\ bpc = "done" =>
       /\ boutcome = "RecipientSameWithSenderError" <=> SelfTransfer
       /\ ~SelfTransfer => innerBuilds = 1 /\ boutcome = innerResult /\ innerResult \in InnerResults

C20_Witness ==
  /\ bpc = "done"
  /\ Len(recipients) = 3
  /\ recipients[1].recipient # sender
  /\ recipients[3].recipient = sender
  /\ boutcome = "RecipientSameWithSenderError"
  /\ innerBuilds = 0

\* ------------------------------------------- two calls on one provider
TwoCells == 2        \* cells the indexer holds while two calls run
TwoPages == 2        \* pages it serves them
TwoThreshold == 2    \* thresholds 0..TwoThreshold

TwoSources(k) ==
  { Paginate(flat, lens, 0) :
      <<flat, lens>> \in
        { fl \in SeqsUpTo(CellKindsOf(k), TwoCells) \X SeqsUpTo(0..MaxPageLen, TwoPages) :
            SumSeq(fl[2]) = Len(fl[1]) } }

TwoThresholds(k) ==
  IF k \in CollectKinds THEN { toHex(n) : n \in 0..TwoThreshold } ELSE {<<0>>}

\* the methods that query with the same search key
Family(k) == IF k \in CkbKinds THEN CkbKinds ELSE Kinds \ CkbKinds

NewCall(k, min) ==
  [kind |-> k, minimal |-> min, pc |-> "start", inflight |-> <<>>, failed |-> FALSE,
   outcome |-> "pending", result |-> <<>>, error |-> NoError]

\* the accumulator the pipeline of call c scans into: the seed object of its
\* own scan / reduce operator
AccSlotShared(c) == 1
AccSlot(c) == c

InitTwo ==
  /\ \E k1 \in Kinds : \E k2 \in Family(k1) :
       /\ pages \in TwoSources(k1)
       /\ two \in { <<NewCall(k1, m1), NewCall(k2, m2)>> :
                      <<m1, m2>> \in TwoThresholds(k1) \X TwoThresholds(k2) }
  /\ accs = <<Seed, Seed>>
  /\ kind = "collectCkbLiveCells"
  /\ minimal = <<0>>
  /\ pc = "start"
  /\ inflight = <<>>
  /\ requests = <<>>
  /\ responses = <<>>
  /\ failedAt = 0
  /\ acc = Seed
  /\ outcome = "pending"
  /\ result = <<>>
  /\ error = NoError
  /\ wpc = "idle"
  /\ now = 0
  /\ start = 0
  /\ timeoutMs = 0
  /\ pollIntervalMs = 1
  /\ wresult = Null
  /\ rpcTip = 0
  /\ txStatus = Null
  /\ chainTip = 0
  /\ indexerTip = 0
  /\ calls = <<>>
  /\ dpc = "off"
  /\ dkind = "collectUdtCells"
  /\ dcell = <<>>
  /\ dacc = Seed
  /\ dout = Seed
  /\ ddigits = <<>>
  /\ bpc = "off"
  /\ sender = ""
  /\ recipients = <<>>
  /\ innerBuilds = 0
  /\ innerResult = "none"
  /\ boutcome = "pending"

\* call c is made: its first get_cells goes out and it suspends
CallTwo ==
  /\ \E c \in 1..2 :
       /\ two[c].pc = "start"
       /\ two' = [two EXCEPT ![c].pc = "await", ![c].inflight = <<NoCursor>>]
       /\ accs' = [accs EXCEPT ![AccSlot(c)] = Seed]
  /\ UNCHANGED <<cvars, wvars, dvars, bvars>>

\* a get_cells promise of call c resolves while its stream is subscribed
DeliverTwo ==
  /\ \E c \in 1..2 :
       /\ two[c].pc = "await"
       /\ two[c].inflight # <<>>
       /\ LET res == get_cells(Head(two[c].inflight))
              step == OnPage(two[c].kind, accs[AccSlot(c)], res, two[c].minimal)
              end == Settle(two[c].kind, step.acc, two[c].minimal)
              next == Append(Tail(two[c].inflight), Expand(res))
          IN /\ accs' = [accs EXCEPT ![AccSlot(c)] = step.acc]
             /\ two' = IF step.complete
                       THEN [two EXCEPT ![c].inflight = next,
                                        ![c].pc = "settled",
                                        ![c].outcome = end.outcome,
                                        ![c].result = end.result,
                                        ![c].error = end.error]
                       ELSE [two EXCEPT ![c].inflight = next]
  /\ UNCHANGED <<cvars, wvars, dvars, bvars>>

\* a get_cells promise of call c rejects while its stream is subscribed
FailTwo ==
  /\ \E c \in 1..2 :
       /\ two[c].pc = "await"
       /\ two[c].inflight # <<>>
       /\ two' = [two EXCEPT ![c].inflight = Tail(two[c].inflight) \o OnError(Head(two[c].inflight)),
                             ![c].failed = TRUE,
                             ![c].pc = IF OnError(Head(two[c].inflight)) = <<>>
                                       THEN "settled" ELSE "await",
                             ![c].outcome = IF OnError(Head(two[c].inflight)) = <<>>
                                            THEN "TransportError" ELSE "pending"]
  /\ UNCHANGED accs
  /\ UNCHANGED <<cvars, wvars, dvars, bvars>>

\* the request call c made after its stream completed settles and is dropped
LateTwo ==
  /\ \E c \in 1..2 :
       /\ two[c].pc = "settled"
       /\ two[c].inflight # <<>>
       /\ two' = [two EXCEPT ![c].inflight = Tail(two[c].inflight)]
  /\ UNCHANGED accs
  /\ UNCHANGED <<cvars, wvars, dvars, bvars>>

NextTwo == CallTwo \/ DeliverTwo \/ FailTwo \/ LateTwo

SpecTwo == InitTwo /\ [][NextTwo]_vars

\* the same call with nothing else running: page after page from the first
\* cursor, through the pipe, until the stream completes
RECURSIVE RunAlone(_, _, _, _)
RunAlone(k, min, a, after_cursor) ==
  LET res == get_cells(after_cursor)
      step == OnPage(k, a, res, min)
  IN IF step.complete THEN Settle(k, step.acc, min)
     ELSE RunAlone(k, min, step.acc, Expand(res))

\* C17: of two calls interleaved at their page fetches, each one whose
\* fetches all succeeded settles with exactly what it settles with when it runs
\* alone on the same pages, whatever the other call did in between.
C17_CallIsolation ==
  \A c \in 1..Len(two) :
    (two[c].pc = "settled" /\ ~two[c].failed) =>
      LET alone == RunAlone(two[c].kind, two[c].minimal, Seed, NoCursor)
      IN /\ two[c].outcome = alone.outcome
         /\ two[c].result = alone.result
         /\ two[c].error = alone.error

C17_Witness ==
  /\ Len(two) = 2
  /\ two[1].kind = "collectCkbLiveCells"
  /\ two[2].kind = "collectCkbLiveCells"
  /\ two[1].pc = "settled"
  /\ two[2].pc = "await"
  /\ two[2].inflight = <<1>>
  /\ accs[2].amount = 1
  /\ two[1].outcome = "resolved"
  /\ Len(two[1].result) = 2
  /\ Len(pages) = 2
  /\ two[2].minimal = <<2>>

\* ------------------------------------- every fetch and every RPC call completes
\* one call of one method: a paginated query, or waitForTransactionCommitted
InitLive ==
  /\ \/ /\ kind \in Kinds
        /\ minimal \in (IF kind \in CollectKinds THEN Thresholds ELSE {<<0>>})
        /\ pages \in Sources(kind)
        /\ pc = "start"
        /\ inflight = <<>>
        /\ requests = <<>>
        /\ responses = <<>>
        /\ failedAt = 0
        /\ acc = Seed
        /\ outcome = "pending"
        /\ result = <<>>
        /\ error = NoError
      /\ wpc = "off"
        /\ now = 0
        /\ start = 0
        /\ timeoutMs = 0
        /\ pollIntervalMs = 1
        /\ wresult = Null
        /\ rpcTip = 0
        /\ txStatus = Null
        /\ chainTip = 0
        /\ indexerTip = 0
        /\ calls = <<>>
     \/ /\ wpc = "idle"
        /\ now \in 0..1
        /\ start = 0
        /\ timeoutMs \in 0..MaxTimeout
        /\ pollIntervalMs \in 1..MaxInterval
        /\ wresult = Null
        /\ rpcTip = 0
        /\ txStatus \in {Null, "pending"}
        /\ chainTip \in 0..1
        /\ indexerTip \in 0..chainTip
        /\ calls = <<>>
      /\ kind = "collectCkbLiveCells"
        /\ minimal = <<0>>
        /\ pages = <<>>
        /\ pc = "off"
        /\ inflight = <<>>
        /\ requests = <<>>
        /\ responses = <<>>
        /\ failedAt = 0
        /\ acc = Seed
        /\ outcome = "pending"
        /\ result = <<>>
        /\ error = NoError
  /\ dpc = "off"
  /\ dkind = "collectUdtCells"
  /\ dcell = <<>>
  /\ dacc = Seed
  /\ dout = Seed
  /\ ddigits = <<>>
  /\ two = <<>>
  /\ accs = <<>>
  /\ bpc = "off"
  /\ sender = ""
  /\ recipients = <<>>
  /\ innerBuilds = 0
  /\ innerResult = "none"
  /\ boutcome = "pending"

NextLive ==
  \/ Call
  \/ Deliver
  \/ Late
  \/ Wait
  \/ GetTransaction
  \/ Sleep1
  \/ GetTipBlockNumber
  \/ GetTip
  \/ Sleep2
  \/ TxMoves
  \/ ChainGrows
  \/ IndexerGrows

\* the steps of the program: each is taken once the promise it awaits has
\* settled; the node and the indexer move as they like
Completes ==
  \/ Call
  \/ Late
  \/ Wait
  \/ GetTransaction
  \/ Sleep1
  \/ GetTipBlockNumber
  \/ GetTip
  \/ Sleep2

\* WF_vars(Deliver), with ENABLED <<Deliver>>_vars written out: a call suspended
\* on a fetch in flight gets its page
DeliverCompletes ==
  <>[](pc = "await" /\ inflight # <<>>) => []<><<Deliver>>_vars

SpecLive == InitLive /\ [][NextLive]_vars /\ WF_vars(Completes) /\ DeliverCompletes

\* C18: when every fetch completes a paginated query makes at most two
\* requests more than the source has pages, it eventually settles, as success or
\* (for the collectors) as the insufficiency error, and once settled its
\* outcome never changes; when every RPC call completes and sleeping takes
\* time, waitForTransactionCommitted eventually returns.
C18_Termination ==
  /\ [](Len(requests) <= Len(pages) + 2)
  /\ [][outcome # "pending" => outcome' = outcome]_vars
  /\ <>(\/ /\ wpc = "off"
           /\ pc = "settled"
           /\ inflight = <<>>
           /\ \/ outcome = "resolved"
              \/ kind \in CollectKinds /\ outcome = ErrorOf(kind)
        \/ /\ pc = "off"
           /\ wpc = "returned")

C18_Witness ==
  /\ wpc = "off"
  /\ kind = "collectUdtCells"
  /\ pc = "settled"
  /\ outcome = "NoEnoughUdtError"
  /\ Len(pages) = 3
  /\ requests = <<0, 1, 2, 3, 4>>
  /\ inflight = <<>>

====
